---- MODULE Spec2Model ----
(***************************************************************************)
(* Floe sync engine: run_sync (src/src/main.py), the playlist store        *)
(* wrapper (src/src/services/ytmusic.py), the batch categorizer            *)
(* (src/src/services/categorizer.py), the JSON files of src/src/config.py  *)
(* and the sync trigger of the web layer (src/src/app.py).                 *)
(*                                                                         *)
(* Spec     : run_sync called again and again by one caller, each call     *)
(*            stepping from one external call to the next.                 *)
(* SpecWeb  : the /api/sync handler threads and the worker threads they    *)
(*            start, interleaved.                                          *)
(* SpecAdd  : one call of add_songs_to_playlist on any list of videoIds    *)
(*            and any membership of the playlist.                          *)
(***************************************************************************)
EXTENDS Integers, Sequences, FiniteSets, TLC

\* ---------------------------------------------------------------- bounds
\* Number of run_sync calls of the one caller of Spec.
MaxRuns == 2
\* Number of external calls that may fail or misbehave in one behaviour.
MaxFaults == 1
\* Length of the longest listening history the History Source returns.
MaxHist == 21
\* Number of /api/sync requests (each with its handler and worker thread).
MaxReq == 2
\* Length of the lists, and number of the tracks, of a direct call of
\* add_songs_to_playlist.
MaxIds == 2

\* ------------------------------------------------------ program constants
batch_size == 20
DefaultScanDepth == 100
LibraryLimit == 100
\* "If confidence < 0.6, assign to the default playlist", in percent.
LowConfidence == 60

\* None / null / absent values. Identifiers are positive integers.
NoLimit == -1
NoPlaylistId == 0
NoVideoId == 0
NoDepth == 0
Absent == "<absent>"
Null == "<null>"

Procs == 1 .. MaxReq

Min(a, b) == IF a <= b THEN a ELSE b

\* Python's s[:n] for n >= 0.
Take(s, n) == SubSeq(s, 1, Min(n, Len(s)))

\* Python's s[i : i + n] for a 0-based offset i.
SliceFromStart(s, i, n) == SubSeq(s, 1, Min(n, Len(s)))

Slice(s, i, n) == SubSeq(s, i + 1, Min(i + n, Len(s)))

Range(s) == {s[i] : i \in 1 .. Len(s)}

\* Python truthiness of a string-or-None value.
Truthy(x) == x # Null /\ x # Absent /\ x # ""

\* ------------------------------------------------------------- the inputs
\* The collections of the setup: key (slug), display name, remote id.
Playlist(k, n, id) == [key |-> k, name |-> n, ytmusic_playlist_id |-> id]

PlaylistsMenu ==
    { <<>>,
      << Playlist("k1", "A", NoPlaylistId), Playlist("k2", "B", NoPlaylistId) >>,
      << Playlist("k1", "A", 1), Playlist("k2", "B", 2) >> }

\* The listening history the History Source holds: n plays, most recent first,
\* over `period` tracks (period >= n: all plays are of different tracks).
History(n, period) == [i \in 1 .. n |-> ((n - i) % period) + 1]

SourceMenu ==
    { History(0, 1), History(1, 1), History(3, 3), History(3, 2), History(5, 5),
      History(MaxHist, MaxHist), History(MaxHist, batch_size) }

\* The remote store at the start: the titles and the members of its playlists.
RemoteMenu ==
    { << <<>>, <<>> >>,
      << <<"A">>, << <<1>> >> >>,
      << <<"A", "B">>, << <<>>, <<2>> >> >> }

ScheduleMenu ==
    { [default_playlist |-> "k1", initial_scan_depth |-> 2],
      [default_playlist |-> Null, initial_scan_depth |-> NoDepth] }

LimitMenu == {NoLimit, 2}

\* What the classifier answers for a track when it answers for it.
Verdict(t) ==
    LET r == t % 6 IN
    [ videoId |-> t,
      best_playlist |-> CASE r = 1 -> "k1"
                          [] r = 2 -> "k2"
                          [] r = 3 -> "k2"
                          [] r = 4 -> Absent
                          [] r = 5 -> "kx"
                          [] OTHER -> "k1",
      confidence |-> IF r = 3 \/ r = 0 THEN 30 ELSE 90 ]

\* An answer for a track that was answered differently before.
OtherVerdict(t) ==
    [ videoId |-> t,
      best_playlist |-> IF Verdict(t).best_playlist = "k2" THEN "k1" ELSE "k2",
      confidence |-> 70 ]

VARIABLES
    anthropic_key,   \* config/.env: whether ANTHROPIC_API_KEY is set
    playlists_file,  \* config/playlists.json
    schedule,        \* config/schedule.json
    song_cache,      \* data/song_cache.json: videoId -> result
    report_file,     \* logs/<date>_report.json: <<>> or <<report>>
    library,         \* the remote store: title of playlist i (its id is i)
    members,         \* the remote store: the videoIds of playlist i, in order
    source,          \* the History Source: the plays, most recent first
    run,             \* per caller: the locals of its run_sync call
    req,             \* per request: the position of its /api/sync handler
    sync_state,      \* app.py: {"running": ..., "result": ...}
    nruns,           \* run_sync calls made so far by the caller of Spec
    faults           \* external calls that may still fail or misbehave

vars == << anthropic_key, playlists_file, schedule, song_cache, report_file,
           library, members, source, run, req, sync_state, nruns, faults >>

files == << anthropic_key, playlists_file, schedule, song_cache, report_file >>
remote == << library, members >>
web == << req, sync_state >>

NoOutcome == [status |-> "none"]
NoResult == [status |-> "null"]

\* The locals of a run_sync call that has not started; `unanswered` records
\* the tracks the caller's call before submitted and got no result for.
IdleRun ==
    [ pc |-> "idle", song_limit |-> NoLimit, playlists |-> <<>>, i |-> 0,
      changed |-> FALSE, fetched |-> <<>>, songs |-> <<>>, cache |-> <<>>,
      cache0 |-> <<>>, members0 |-> <<>>,
      new_songs |-> <<>>, cached_results |-> <<>>, new_results |-> <<>>,
      group_keys |-> <<>>, playlist_songs |-> <<>>, breakdown |-> <<>>,
      total_added |-> 0, log |-> <<>>, outcome |-> NoOutcome,
      unanswered |-> {} ]

\* One entry of a call's log: an external call or a file write.
Event(op, name, pid, ids, ok) ==
    [op |-> op, name |-> name, pid |-> pid, ids |-> ids, ok |-> ok]

Logged(r, e) == Append(r.log, e)

EmptyMap == [x \in {} |-> 0]

TypeOK ==
    /\ anthropic_key \in BOOLEAN
    /\ playlists_file \in Seq([key : STRING, name : STRING, ytmusic_playlist_id : Nat])
    /\ nruns \in 0 .. MaxRuns
    /\ faults \in 0 .. MaxFaults
    /\ Len(library) = Len(members)
    /\ \A p \in Procs : run[p].pc \in
          {"idle", "called", "provision", "fetch", "classify", "merge",
           "group", "reconcile", "done", "stored", "finished",
           "add_called", "add_read", "add_write"}

\* ------------------------------------------------------------ the start
Init ==
    /\ anthropic_key \in BOOLEAN
    /\ playlists_file \in PlaylistsMenu
    /\ schedule \in ScheduleMenu
    /\ song_cache = EmptyMap
    /\ report_file = <<>>
    /\ \E rm \in RemoteMenu : library = rm[1] /\ members = rm[2]
    /\ \A j \in 1 .. Len(playlists_file) :
          playlists_file[j].ytmusic_playlist_id <= Len(library)
    /\ Len(library) = 2 => playlists_file # <<>> /\ playlists_file[1].ytmusic_playlist_id = 1
    /\ source \in SourceMenu
    /\ run = [p \in Procs |-> IdleRun]
    /\ req = [p \in Procs |-> [pc |-> "idle", limit |-> NoLimit]]
    /\ sync_state = [running |-> FALSE, result |-> NoResult]
    /\ nruns = 0
    /\ faults = MaxFaults

\* A call's locals after the step `r`.
Step(p, r) == run' = [run EXCEPT ![p] = r]

\* The call ends by raising: nothing is returned.
Raised(r, what) == [r EXCEPT !.pc = "done", !.outcome = [status |-> "raised", error |-> what]]

\* The call ends by returning `report`.
Returned(r, report) == [r EXCEPT !.pc = "done", !.outcome = report]

\* ----------------------------------------------- run_sync: configuration
\* main.py 51-60: the two conditions under which run_sync raises RuntimeError.
ConfigErrorNoPlaylistCheck(key, pls) == ~key

ConfigError(key, pls) == ~key \/ pls = <<>>

\* main.py 94-98: the tracks the call with locals `r` has submitted to the
\* classifier whose videoId is in none of the results it got back.
UnansweredIn(r) ==
    LET calls == SelectSeq(r.log, LAMBDA e : e.op = "classify")
    IN UNION {Range(calls[j].ids) : j \in 1 .. Len(calls)}
          \ {r.new_results[j].videoId : j \in 1 .. Len(r.new_results)}

\* The caller of Spec calls run_sync(song_limit = limit).
Invoke(p, limit) ==
    /\ run[p].pc \in {"idle", "done"}
    /\ nruns < MaxRuns
    /\ nruns' = nruns + 1
    /\ Step(p, [IdleRun EXCEPT !.pc = "called", !.song_limit = limit,
                               !.unanswered = UnansweredIn(run[p])])
    /\ UNCHANGED << files, remote, source, web, faults >>

\* main.py 51-65: load the configuration, raise if it is unusable.
RunSync(p) ==
    /\ run[p].pc = "called"
    /\ LET r == run[p] IN
       IF ConfigError(anthropic_key, playlists_file)
       THEN Step(p, Raised(r, "config"))
       ELSE Step(p, [r EXCEPT !.pc = "provision", !.playlists = playlists_file,
                                !.i = 1, !.changed = FALSE,
                                !.cache0 = song_cache, !.members0 = members])
    /\ UNCHANGED << files, remote, source, web, nruns, faults >>

\* ------------------------------------------------- ensure_playlists
\* ytmusic.py 95-104 on a listing that succeeded: the id of the first of the
\* first LibraryLimit playlists whose title is `name`, or None.
FindByName(lib, name) ==
    LET hits == {j \in 1 .. Min(Len(lib), LibraryLimit) : lib[j] = name} IN
    IF hits = {} THEN NoPlaylistId
    ELSE CHOOSE j \in hits : \A k \in hits : j <= k

\* main.py 28-38: one iteration of the loop over the playlists.
EnsureStep(p) ==
    /\ run[p].pc = "provision"
    /\ run[p].i <= Len(run[p].playlists)
    /\ LET r == run[p]
           pl == r.playlists[r.i]
       IN
       IF pl.ytmusic_playlist_id # NoPlaylistId
       THEN /\ Step(p, [r EXCEPT !.i = r.i + 1])
            /\ UNCHANGED << remote, faults >>
       ELSE \E listed \in BOOLEAN, created \in BOOLEAN :
            LET f1 == IF listed THEN 0 ELSE 1
                existing_id == IF listed THEN FindByName(library, pl.name)
                               ELSE NoPlaylistId
                f2 == IF existing_id = NoPlaylistId /\ ~created THEN 1 ELSE 0
                r1 == [r EXCEPT !.log = Logged(r, Event("find", pl.name, existing_id, <<>>, listed))]
            IN
            /\ existing_id # NoPlaylistId => created
            /\ f1 + f2 <= faults
            /\ faults' = faults - (f1 + f2)
            /\ IF existing_id # NoPlaylistId
               THEN /\ Step(p, [r1 EXCEPT !.playlists[r.i].ytmusic_playlist_id = existing_id,
                                          !.changed = TRUE, !.i = r.i + 1])
                    /\ UNCHANGED remote
               ELSE IF created
               THEN /\ library' = Append(library, pl.name)
                    /\ members' = Append(members, <<>>)
                    /\ Step(p, [r1 EXCEPT !.playlists[r.i].ytmusic_playlist_id = Len(library) + 1,
                                          !.changed = TRUE, !.i = r.i + 1,
                                          !.log = Append(r1.log, Event("create", pl.name, Len(library) + 1, <<>>, TRUE))])
               ELSE /\ Step(p, Raised([r1 EXCEPT !.log = Append(r1.log, Event("create", pl.name, NoPlaylistId, <<>>, FALSE))],
                                      "create_playlist"))
                    /\ UNCHANGED remote
    /\ UNCHANGED << files, source, web, nruns >>

\* main.py 39-41, 68 without the test of `changed`.
EnsureDoneAlwaysSaving(p) ==
    /\ run[p].pc = "provision"
    /\ run[p].i > Len(run[p].playlists)
    /\ playlists_file' = run[p].playlists
    /\ Step(p, [run[p] EXCEPT !.pc = "fetch",
                              !.log = Logged(run[p], Event("save_playlists", "", 0, <<>>, TRUE))])
    /\ UNCHANGED << anthropic_key, schedule, song_cache, report_file, remote,
                    source, web, nruns, faults >>

\* main.py 39-41, 68: save the playlists if one was given an id.
EnsureDone(p) ==
    /\ run[p].pc = "provision"
    /\ run[p].i > Len(run[p].playlists)
    /\ LET r == run[p] IN
       IF r.changed
       THEN /\ playlists_file' = r.playlists
            /\ Step(p, [r EXCEPT !.pc = "fetch",
                                 !.log = Logged(r, Event("save_playlists", "", 0, <<>>, TRUE))])
       ELSE /\ Step(p, [r EXCEPT !.pc = "fetch"])
            /\ UNCHANGED playlists_file
    /\ UNCHANGED << anthropic_key, schedule, song_cache, report_file, remote,
                    source, web, nruns, faults >>

\* main.py 68 and 113 with the id of the first playlist for a key that has
\* no remote id.
PlaylistIdMapFallingBack(pls, key) ==
    LET hits == {j \in 1 .. Len(pls) :
                    pls[j].key = key /\ pls[j].ytmusic_playlist_id # NoPlaylistId}
    IN IF hits = {} THEN pls[1].ytmusic_playlist_id
       ELSE pls[CHOOSE j \in hits : \A k \in hits : j >= k].ytmusic_playlist_id

\* main.py 68: the dict key -> remote id (a later entry with the same key wins).
PlaylistIdMap(pls, key) ==
    LET hits == {j \in 1 .. Len(pls) : pls[j].key = key} IN
    IF hits = {} THEN NoPlaylistId
    ELSE pls[CHOOSE j \in hits : \A k \in hits : j >= k].ytmusic_playlist_id

\* ------------------------------------------------ run_sync: fetch, scope
\* schedule.get("initial_scan_depth", 100)
ScanDepth(sch) ==
    IF sch.initial_scan_depth = NoDepth THEN DefaultScanDepth
    ELSE sch.initial_scan_depth

\* main.py 78-79: the limit in force after the first-run rule.
EffectiveLimitIgnoringCache(cache, song_limit, sch) ==
    IF song_limit = NoLimit THEN ScanDepth(sch) ELSE song_limit

EffectiveLimit(cache, song_limit, sch) ==
    IF cache = EmptyMap /\ song_limit = NoLimit THEN ScanDepth(sch)
    ELSE song_limit

\* main.py 81-82: `if song_limit: songs = songs[:song_limit]`.
Scoped(songs, lim) ==
    IF lim # NoLimit /\ lim # 0 THEN Take(songs, lim) ELSE songs

\* main.py 87: the songs that go to the classifier.
NewSongsIgnoringCache(songs, cache) == songs

NewSongs(songs, cache) ==
    SelectSeq(songs, LAMBDA t : t \notin DOMAIN cache)

\* main.py 88: the results served from the cache.
CachedResults(songs, cache) ==
    LET hits == SelectSeq(songs, LAMBDA t : t \in DOMAIN cache)
    IN [j \in 1 .. Len(hits) |-> cache[hits[j]]]

\* main.py 70-89 without the return on an empty history (main.py 72-74).
FetchWithoutEmptyCheck(p) ==
    /\ run[p].pc = "fetch"
    /\ LET r == run[p]
           songs == Scoped(source, EffectiveLimit(song_cache, r.song_limit, schedule))
           new == NewSongs(songs, song_cache)
       IN Step(p, [r EXCEPT !.log = Logged(r, Event("get_history", "", 0, source, TRUE)),
                            !.fetched = source,
                            !.pc = IF new # <<>> THEN "classify" ELSE "group",
                            !.cache = song_cache, !.songs = songs, !.new_songs = new,
                            !.cached_results = CachedResults(songs, song_cache),
                            !.new_results = <<>>, !.i = 0])
    /\ UNCHANGED << files, remote, source, web, nruns, faults >>

\* main.py 70-89: fetch the history, load the cache, scope and partition.
Fetch(p) ==
    /\ run[p].pc = "fetch"
    /\ LET r == run[p] IN
       \E ok \in BOOLEAN :
       IF ~ok
       THEN /\ faults > 0
            /\ faults' = faults - 1
            /\ Step(p, Raised([r EXCEPT !.log = Logged(r, Event("get_history", "", 0, <<>>, FALSE))],
                              "get_history"))
       ELSE LET r1 == [r EXCEPT !.log = Logged(r, Event("get_history", "", 0, source, TRUE)),
                                !.fetched = source]
                cache == song_cache
                lim == EffectiveLimit(cache, r.song_limit, schedule)
                songs == Scoped(source, lim)
                new == NewSongs(songs, cache)
            IN
            /\ UNCHANGED faults
            /\ IF source = <<>>
               THEN Step(p, Returned(r1, [status |-> "empty", songs_fetched |-> 0,
                                          total_added |-> 0]))
               ELSE Step(p, [r1 EXCEPT !.pc = IF new # <<>> THEN "classify" ELSE "group",
                                       !.cache = cache, !.songs = songs,
                                       !.new_songs = new,
                                       !.cached_results = CachedResults(songs, cache),
                                       !.new_results = <<>>, !.i = 0])
    /\ UNCHANGED << files, remote, source, web, nruns >>

\* ------------------------------------------------------ the categorizer
ResponseKinds == {"ok", "malformed", "api_error", "missing", "foreign", "noid", "raise"}

\* The tracks a misbehaving classifier may answer for unasked.
ForeignMenu == {1, 2}

\* categorizer.py 155-183: the list _call_claude returns for `batch`, by the
\* kind of response the classifier gave.
CallClaude(kind, batch, x) ==
    LET answers == [j \in 1 .. Len(batch) |-> Verdict(batch[j])] IN
    CASE kind = "ok" -> answers
      [] kind = "missing" -> Tail(answers)
      [] kind = "foreign" -> Append(answers, OtherVerdict(x))
      [] kind = "noid" ->
           [j \in 1 .. Len(batch) |-> [answers[j] EXCEPT !.videoId = NoVideoId]]
      [] OTHER -> <<>>

\* categorizer.py 141-151: one iteration of the loop over the batches.
Classify(p) ==
    /\ run[p].pc = "classify"
    /\ LET r == run[p]
           batch == Slice(r.new_songs, r.i, batch_size)
       IN
       \E kind \in ResponseKinds, x \in ForeignMenu :
       /\ kind # "foreign" => x = 1
       /\ kind # "ok" => faults > 0
       /\ faults' = IF kind = "ok" THEN faults ELSE faults - 1
       /\ LET r1 == [r EXCEPT !.log = Logged(r, Event("classify", kind, 0, batch, kind # "raise"))]
          IN
          IF kind = "raise"
          THEN Step(p, Raised(r1, "classify"))
          ELSE Step(p, [r1 EXCEPT
                  !.new_results = r.new_results \o CallClaude(kind, batch, x),
                  !.i = r.i + batch_size,
                  !.pc = IF r.i + batch_size >= Len(r.new_songs) THEN "merge"
                         ELSE "classify"])
    /\ UNCHANGED << files, remote, source, web, nruns >>

\* main.py 95-98 with the new results alone written back.
MergeResultsDroppingOld(cache, results) ==
    LET ids == {results[j].videoId : j \in 1 .. Len(results)} \ {NoVideoId}
    IN [v \in ids |->
          results[CHOOSE j \in 1 .. Len(results) :
                     /\ results[j].videoId = v
                     /\ \A k \in 1 .. Len(results) : results[k].videoId = v => k <= j]]

\* main.py 95-98: the cache after the results are merged in (last one wins).
MergeResults(cache, results) ==
    LET ids == {results[j].videoId : j \in 1 .. Len(results)} \ {NoVideoId}
        last(v) == CHOOSE j \in 1 .. Len(results) :
                     /\ results[j].videoId = v
                     /\ \A k \in 1 .. Len(results) : results[k].videoId = v => k <= j
    IN [v \in DOMAIN cache \cup ids |->
          IF v \in ids THEN results[last(v)] ELSE cache[v]]

\* main.py 95-99 without the call of save_song_cache.
MergeWithoutSave(p) ==
    /\ run[p].pc = "merge"
    /\ Step(p, [run[p] EXCEPT !.pc = "group",
                              !.cache = MergeResults(run[p].cache, run[p].new_results)])
    /\ UNCHANGED << files, remote, source, web, nruns, faults >>

\* main.py 95-99 with an entry written for every submitted track, answered
\* or not.
MergeCachingSubmitted(p) ==
    /\ run[p].pc = "merge"
    /\ LET r == run[p]
           seen == [j \in 1 .. Len(r.new_songs) |->
                      [videoId |-> r.new_songs[j], best_playlist |-> Absent,
                       confidence |-> 0]]
           merged == MergeResults(r.cache, seen \o r.new_results)
       IN
       /\ song_cache' = merged
       /\ Step(p, [r EXCEPT !.pc = "group", !.cache = merged,
                            !.log = Logged(r, Event("save_song_cache", "", 0, <<>>, TRUE))])
    /\ UNCHANGED << anthropic_key, playlists_file, schedule, report_file,
                    remote, source, web, nruns, faults >>

\* main.py 95-99: merge the new results into the cache and save it. The file
\* is JSON with string keys and the results are parsed JSON objects, so what
\* load_song_cache reads back is what save_song_cache wrote.
Merge(p) ==
    /\ run[p].pc = "merge"
    /\ LET r == run[p]
           merged == MergeResults(r.cache, r.new_results)
       IN
       /\ song_cache' = merged
       /\ Step(p, [r EXCEPT !.pc = "group", !.cache = merged,
                            !.log = Logged(r, Event("save_song_cache", "", 0, <<>>, TRUE))])
    /\ UNCHANGED << anthropic_key, playlists_file, schedule, report_file,
                    remote, source, web, nruns, faults >>

\* ------------------------------------------------- run_sync: grouping
\* main.py 106: cat.get("best_playlist", schedule.get("default_playlist", "")).
GroupKey(cat, sch) ==
    IF cat.best_playlist = Absent THEN sch.default_playlist
    ELSE cat.best_playlist

\* main.py 107-108: `if vid and key`.
Grouped(cat, sch) == cat.videoId # NoVideoId /\ Truthy(GroupKey(cat, sch))

\* The keys of playlist_songs in insertion order.
RECURSIVE OrderedKeys(_, _)
OrderedKeys(cats, sch) ==
    IF cats = <<>> THEN <<>>
    ELSE LET n == Len(cats)
             before == OrderedKeys(SubSeq(cats, 1, n - 1), sch)
             k == GroupKey(cats[n], sch)
         IN IF k \in Range(before) THEN before ELSE Append(before, k)

\* main.py 104-109: playlist_songs[key], the videoIds grouped under `key`.
PlaylistSongs(cats, sch, key) ==
    LET hits == SelectSeq(cats, LAMBDA c : GroupKey(c, sch) = key)
    IN [j \in 1 .. Len(hits) |-> hits[j].videoId]

\* main.py 101-112: combine the results and group them by playlist key.
Group(p) ==
    /\ run[p].pc = "group"
    /\ LET r == run[p]
           all_results == r.cached_results \o r.new_results
           kept == SelectSeq(all_results, LAMBDA c : Grouped(c, schedule))
           keys == OrderedKeys(kept, schedule)
       IN Step(p, [r EXCEPT !.pc = "reconcile", !.i = 1, !.group_keys = keys,
                            !.playlist_songs =
                                [k \in Range(keys) |-> PlaylistSongs(kept, schedule, k)],
                            !.breakdown = EmptyMap, !.total_added = 0])
    /\ UNCHANGED << files, remote, source, web, nruns, faults >>

\* ------------------------------------------------ add_songs_to_playlist
\* ytmusic.py 106-117: the videoIds of the playlist, an empty set if the read fails.
PlaylistVideoIds(m, pid, readOk) ==
    IF readOk THEN Range(m[pid]) \ {NoVideoId} ELSE {}

\* ytmusic.py 126: the ids that are submitted to the remote add.
NewIds(video_ids, existing) ==
    SelectSeq(video_ids, LAMBDA v : v \notin existing)

\* ytmusic.py 129-135: the count returned after the remote add.
AddedCountIgnoringFailure(new_ids, addOk) == Len(new_ids)

AddedCount(new_ids, addOk) == IF addOk THEN Len(new_ids) ELSE 0

\* main.py 119: the display name of the playlist with this key, else the key.
PlaylistName(pls, key) ==
    LET hits == {j \in 1 .. Len(pls) : pls[j].key = key} IN
    IF hits = {} THEN key
    ELSE pls[CHOOSE j \in hits : \A k \in hits : j <= k].name

Put(f, k, v) == [x \in DOMAIN f \cup {k} |-> IF x = k THEN v ELSE f[x]]

\* main.py 113-121 with ytmusic.py 119-135: one iteration of the loop over
\* the groups.
Reconcile(p) ==
    /\ run[p].pc = "reconcile"
    /\ run[p].i <= Len(run[p].group_keys)
    /\ LET r == run[p]
           key == r.group_keys[r.i]
           vids == r.playlist_songs[key]
           pid == PlaylistIdMap(r.playlists, key)
       IN
       IF pid = NoPlaylistId
       THEN /\ Step(p, [r EXCEPT !.i = r.i + 1])
            /\ UNCHANGED << remote, faults >>
       ELSE \E readOk \in BOOLEAN, addOk \in BOOLEAN :
            LET existing == PlaylistVideoIds(members, pid, readOk)
                new_ids == NewIds(vids, existing)
                added == IF new_ids = <<>> THEN 0 ELSE AddedCount(new_ids, addOk)
                cost == (IF readOk THEN 0 ELSE 1) + (IF addOk THEN 0 ELSE 1)
                log1 == Logged(r, Event("get_playlist", "", pid, <<>>, readOk))
                log2 == IF new_ids = <<>> THEN log1
                        ELSE Append(log1, Event("add_playlist_items", "", pid, new_ids, addOk))
            IN
            /\ new_ids = <<>> => addOk
            /\ cost <= faults
            /\ faults' = faults - cost
            /\ members' = IF new_ids # <<>> /\ addOk
                          THEN [members EXCEPT ![pid] = @ \o new_ids]
                          ELSE members
            /\ UNCHANGED library
            /\ Step(p, [r EXCEPT !.i = r.i + 1, !.log = log2,
                                 !.breakdown = Put(r.breakdown, key,
                                     [name |-> PlaylistName(r.playlists, key),
                                      attempted |-> Len(vids), added |-> added]),
                                 !.total_added = r.total_added + added])
    /\ UNCHANGED << files, source, web, nruns >>

\* main.py 123-141 with songs_fetched counted before the limit is applied.
ReportCountingFetched(p) ==
    /\ run[p].pc = "reconcile"
    /\ run[p].i > Len(run[p].group_keys)
    /\ LET r == run[p]
           report == [status |-> "success", songs_fetched |-> Len(r.fetched),
                      new_categorizations |-> Len(r.new_results),
                      cached |-> Len(r.cached_results),
                      total_added |-> r.total_added, breakdown |-> r.breakdown]
       IN
       /\ report_file' = <<report>>
       /\ Step(p, Returned([r EXCEPT !.log = Logged(r, Event("save_report", "", 0, <<>>, TRUE))],
                           report))
    /\ UNCHANGED << anthropic_key, playlists_file, schedule, song_cache,
                    remote, source, web, nruns, faults >>

\* main.py 123-141: build the report, write it, return it.
Report(p) ==
    /\ run[p].pc = "reconcile"
    /\ run[p].i > Len(run[p].group_keys)
    /\ LET r == run[p]
           report == [status |-> "success", songs_fetched |-> Len(r.songs),
                      new_categorizations |-> Len(r.new_results),
                      cached |-> Len(r.cached_results),
                      total_added |-> r.total_added, breakdown |-> r.breakdown]
       IN
       /\ report_file' = <<report>>
       /\ Step(p, Returned([r EXCEPT !.log = Logged(r, Event("save_report", "", 0, <<>>, TRUE))],
                           report))
    /\ UNCHANGED << anthropic_key, playlists_file, schedule, song_cache,
                    remote, source, web, nruns, faults >>

\* ------------------------------------------------------ the environment
\* The process is killed in the middle of a call.
Crash(p) ==
    /\ run[p].pc \in {"provision", "fetch", "classify", "merge", "group", "reconcile"}
    /\ faults > 0
    /\ faults' = faults - 1
    /\ Step(p, [run[p] EXCEPT !.pc = "done", !.outcome = [status |-> "crashed"]])
    /\ UNCHANGED << files, remote, source, web, nruns >>

\* The user listens to music between two calls.
Listen ==
    /\ run[1].pc = "done"
    /\ nruns < MaxRuns
    /\ source' \in {h \in SourceMenu : Len(h) > Len(source)}
    /\ UNCHANGED << files, remote, run, web, nruns, faults >>

RunStep(p) ==
    \/ RunSync(p)
    \/ EnsureStep(p)
    \/ EnsureDone(p)
    \/ Fetch(p)
    \/ Classify(p)
    \/ Merge(p)
    \/ Group(p)
    \/ Reconcile(p)
    \/ Report(p)

Next ==
    \/ \E limit \in LimitMenu : Invoke(1, limit)
    \/ RunStep(1)
    \/ Crash(1)
    \/ Listen

Spec == Init /\ [][Next]_vars

\* ------------------------------------------------------- the web layer
\* app.py 225: the test of the running flag that lets a trigger through.
GuardPasses(state) == ~state.running

\* app.py 225-235 with the stored result cleared before the flag is tested.
ApiSyncCheckClearingResult(q) ==
    /\ req[q].pc = "idle"
    /\ sync_state' = [sync_state EXCEPT !.result = NoResult]
    /\ IF GuardPasses(sync_state)
       THEN \E limit \in LimitMenu : req' = [req EXCEPT ![q] = [pc |-> "parsed", limit |-> limit]]
       ELSE req' = [req EXCEPT ![q].pc = "conflict"]
    /\ UNCHANGED << files, remote, source, run, nruns, faults >>

\* app.py 225-232: the handler reads the flag, answers 409 if it is set, and
\* otherwise parses the limit of the request.
ApiSyncCheck(q) ==
    /\ req[q].pc = "idle"
    /\ IF GuardPasses(sync_state)
       THEN \E limit \in LimitMenu : req' = [req EXCEPT ![q] = [pc |-> "parsed", limit |-> limit]]
       ELSE req' = [req EXCEPT ![q].pc = "conflict"]
    /\ UNCHANGED << files, remote, source, run, sync_state, nruns, faults >>

\* app.py 234: sync_state["running"] = True
ApiSyncSetRunning(q) ==
    /\ req[q].pc = "parsed"
    /\ req' = [req EXCEPT ![q].pc = "set_running"]
    /\ sync_state' = [sync_state EXCEPT !.running = TRUE]
    /\ UNCHANGED << files, remote, source, run, nruns, faults >>

\* app.py 235: sync_state["result"] = None
ApiSyncClearResult(q) ==
    /\ req[q].pc = "set_running"
    /\ req' = [req EXCEPT ![q].pc = "cleared"]
    /\ sync_state' = [sync_state EXCEPT !.result = NoResult]
    /\ UNCHANGED << files, remote, source, run, nruns, faults >>

\* app.py 245-246: start the worker thread, answer "started".
ApiSyncSpawn(q) ==
    /\ req[q].pc = "cleared"
    /\ req' = [req EXCEPT ![q].pc = "started"]
    /\ Step(q, [IdleRun EXCEPT !.pc = "called", !.song_limit = req[q].limit])
    /\ UNCHANGED << files, remote, source, sync_state, nruns, faults >>

\* app.py 238-241: what do_sync stores for the way run_sync ended.
TerminalResult(outcome) ==
    IF outcome.status = "raised"
    THEN [status |-> "error", error |-> outcome.error]
    ELSE outcome

\* app.py 239, 241: the worker stores the result of its call.
DoSyncStore(q) ==
    /\ req[q].pc = "started"
    /\ run[q].pc = "done"
    /\ sync_state' = [sync_state EXCEPT !.result = TerminalResult(run[q].outcome)]
    /\ Step(q, [run[q] EXCEPT !.pc = "stored"])
    /\ UNCHANGED << files, remote, source, req, nruns, faults >>

\* app.py 242-243: finally: sync_state["running"] = False
DoSyncFinally(q) ==
    /\ run[q].pc = "stored"
    /\ sync_state' = [sync_state EXCEPT !.running = FALSE]
    /\ Step(q, [run[q] EXCEPT !.pc = "finished"])
    /\ UNCHANGED << files, remote, source, req, nruns, faults >>

\* The server at its start, set up and provisioned, with a short history and
\* external services that answer every call.
InitWeb ==
    /\ anthropic_key \in BOOLEAN
    /\ playlists_file = << Playlist("k1", "A", 1), Playlist("k2", "B", 2) >>
    /\ schedule = [default_playlist |-> "k1", initial_scan_depth |-> 2]
    /\ song_cache = EmptyMap
    /\ report_file = <<>>
    /\ library = <<"A", "B">>
    /\ members = << <<>>, <<2>> >>
    /\ source = History(3, 3)
    /\ run = [p \in Procs |-> IdleRun]
    /\ req = [p \in Procs |-> [pc |-> "idle", limit |-> NoLimit]]
    /\ sync_state = [running |-> FALSE, result |-> NoResult]
    /\ nruns = 0
    /\ faults = 0

NextWeb ==
    \E q \in Procs :
        \/ ApiSyncCheck(q)
        \/ ApiSyncSetRunning(q)
        \/ ApiSyncClearResult(q)
        \/ ApiSyncSpawn(q)
        \/ RunStep(q)
        \/ DoSyncStore(q)
        \/ DoSyncFinally(q)

SpecWeb == InitWeb /\ [][NextWeb]_vars

\* ------------------------------------ add_songs_to_playlist on its own
\* The lists of videoIds a caller may pass, and a playlist may hold.
IdLists == UNION {[1 .. n -> 1 .. MaxIds] : n \in 0 .. MaxIds}

\* The locals of a call add_songs_to_playlist(playlist_id, video_ids).
AddCall(playlist_id, video_ids) ==
    [ pc |-> "add_called", playlist_id |-> playlist_id, video_ids |-> video_ids,
      new_ids |-> <<>>, members0 |-> <<>>, log |-> <<>>, outcome |-> NoOutcome ]

\* The call returns `n`.
AddReturned(r, n) == [r EXCEPT !.pc = "done", !.outcome = [status |-> "returned", added |-> n]]

\* ytmusic.py 123-124: `if not video_ids: return 0`.
AddCheckEmpty(p) ==
    /\ run[p].pc = "add_called"
    /\ LET r == [run[p] EXCEPT !.members0 = members] IN
       IF r.video_ids = <<>>
       THEN Step(p, AddReturned(r, 0))
       ELSE Step(p, [r EXCEPT !.pc = "add_read"])
    /\ UNCHANGED << files, remote, source, web, nruns, faults >>

\* ytmusic.py 125-128: read the members, keep the ids that are not among
\* them, return 0 if none is left.
AddRead(p) ==
    /\ run[p].pc = "add_read"
    /\ \E readOk \in BOOLEAN :
       LET r == run[p]
           existing == PlaylistVideoIds(members, r.playlist_id, readOk)
           new_ids == NewIds(r.video_ids, existing)
           r1 == [r EXCEPT !.log = Logged(r, Event("get_playlist", "", r.playlist_id, <<>>, readOk)),
                           !.new_ids = new_ids]
       IN
       /\ ~readOk => faults > 0
       /\ faults' = IF readOk THEN faults ELSE faults - 1
       /\ IF new_ids = <<>>
          THEN Step(p, AddReturned(r1, 0))
          ELSE Step(p, [r1 EXCEPT !.pc = "add_write"])
    /\ UNCHANGED << files, remote, source, web, nruns >>

\* ytmusic.py 129-135: the remote add, and the count returned.
AddWrite(p) ==
    /\ run[p].pc = "add_write"
    /\ \E addOk \in BOOLEAN :
       LET r == run[p] IN
       /\ ~addOk => faults > 0
       /\ faults' = IF addOk THEN faults ELSE faults - 1
       /\ members' = IF addOk THEN [members EXCEPT ![r.playlist_id] = @ \o r.new_ids]
                     ELSE members
       /\ UNCHANGED library
       /\ Step(p, AddReturned(
                     [r EXCEPT !.log = Logged(r, Event("add_playlist_items", "", r.playlist_id,
                                                       r.new_ids, addOk))],
                     AddedCount(r.new_ids, addOk)))
    /\ UNCHANGED << files, source, web, nruns >>

\* One playlist with any members, and a caller about to pass any list.
InitAdd ==
    /\ anthropic_key = TRUE
    /\ playlists_file = << Playlist("k1", "A", 1) >>
    /\ schedule = [default_playlist |-> "k1", initial_scan_depth |-> NoDepth]
    /\ song_cache = EmptyMap
    /\ report_file = <<>>
    /\ library = <<"A">>
    /\ \E m \in IdLists : members = <<m>>
    /\ source = <<>>
    /\ \E v \in IdLists :
          run = [p \in Procs |-> IF p = 1 THEN AddCall(1, v) ELSE IdleRun]
    /\ req = [p \in Procs |-> [pc |-> "idle", limit |-> NoLimit]]
    /\ sync_state = [running |-> FALSE, result |-> NoResult]
    /\ nruns = 0
    /\ faults = MaxFaults

NextAdd ==
    \/ AddCheckEmpty(1)
    \/ AddRead(1)
    \/ AddWrite(1)

SpecAdd == InitAdd /\ [][NextAdd]_vars

\* ===================================================== the properties
Running(p) ==
    run[p].pc \in {"provision", "fetch", "classify", "merge", "group", "reconcile"}

Succeeded(p) == run[p].pc = "done" /\ run[p].outcome.status = "success"

\* The call made an external call or wrote a file in this step.
Did(p, op) ==
    /\ Len(run'[p].log) > Len(run[p].log)
    /\ \E j \in Len(run[p].log) + 1 .. Len(run'[p].log) : run'[p].log[j].op = op

EventsOf(p, op) == {j \in 1 .. Len(run[p].log) : run[p].log[j].op = op}

\* The batch the next classifier call of `p` submits.
PendingBatch(p) == Slice(run[p].new_songs, run[p].i, batch_size)

\* C1. Cache monotonicity: the cache keeps every entry it has, and a batch
\* submitted to the classifier holds no track that has an entry in the cache,
\* in the same run or in a later one.
C1_CacheMonotonicity ==
    [][ /\ DOMAIN song_cache \subseteq DOMAIN song_cache'
        /\ \A p \in Procs :
              Did(p, "classify") =>
                 Range(PendingBatch(p)) \cap DOMAIN song_cache = {} ]_vars

\* C1 witness: a later run whose history holds a cached track, about to call
\* the classifier for the tracks that are not cached.
C1_Witness ==
    /\ run[1].pc = "classify"
    /\ nruns = 2
    /\ \E t \in DOMAIN song_cache : t \in Range(run[1].songs)
    /\ run[1].new_songs # <<>>

\* C2. Single-run guard: at most one sync run is in flight at any time.
InFlight(q) ==
    run[q].pc \in {"called", "provision", "fetch", "classify", "merge", "group",
                   "reconcile", "done", "stored"}

C2_SingleRunGuard == Cardinality({q \in Procs : InFlight(q)}) <= 1

\* C3. Provisioning idempotence: provisioning never creates a remote collection
\* for a display name that already has one.
C3_ProvisionIdempotent ==
    [][ \A p \in Procs :
          Did(p, "create") /\ Len(library') > Len(library) =>
             library'[Len(library')] \notin Range(library) ]_vars

\* C4. Dedup on add: a remote add never submits an identifier that is already
\* a member, and the membership count grows by at most |trackIds - existing|.
C4_DedupOnAdd ==
    [][ \A p \in Procs :
          Did(p, "add_playlist_items") =>
             LET e == run'[p].log[Len(run'[p].log)]
                 key == run[p].group_keys[run[p].i]
                 vids == run[p].playlist_songs[key]
                 before == members[e.pid]
             IN /\ Range(e.ids) \cap Range(before) = {}
                /\ Len(members'[e.pid]) - Len(before)
                      <= Cardinality(Range(vids) \ Range(before)) ]_vars

\* C5. Confidence fallback: after grouping, every result with a videoId whose
\* confidence is below 0.6 is in the group of the default collection key and
\* in no other group.
C5_ConfidenceFallback ==
    \A p \in Procs :
       run[p].pc = "reconcile" /\ Truthy(schedule.default_playlist) =>
          LET all_results == run[p].cached_results \o run[p].new_results IN
          \A j \in 1 .. Len(all_results) :
             LET c == all_results[j] IN
             c.confidence < LowConfidence /\ c.videoId # NoVideoId =>
                /\ schedule.default_playlist \in DOMAIN run[p].playlist_songs
                /\ \A k \in DOMAIN run[p].playlist_songs :
                      c.videoId \in Range(run[p].playlist_songs[k])
                         <=> k = schedule.default_playlist

\* The members of a remote collection when the call started.
Members0(p, pid) ==
    IF pid <= Len(run[p].members0) THEN run[p].members0[pid] ELSE <<>>

AddFailed(p, pid) ==
    \E j \in EventsOf(p, "add_playlist_items") :
       run[p].log[j].pid = pid /\ ~run[p].log[j].ok

ReadFailed(p, pid) ==
    \E j \in EventsOf(p, "get_playlist") :
       run[p].log[j].pid = pid /\ ~run[p].log[j].ok

\* C6. Partial-failure containment: in a run that returns its report, every
\* group with a remote collection has its breakdown entry; a collection whose
\* remote add failed has added = 0; every other collection has the added count
\* its own tracks and its own membership give, whatever failed elsewhere.
C6_PartialFailureContainment ==
    \A p \in Procs :
       Succeeded(p) =>
          \A k \in Range(run[p].group_keys) :
             LET pid == PlaylistIdMap(run[p].playlists, k)
                 vids == run[p].playlist_songs[k]
                 fresh == SelectSeq(vids, LAMBDA v : v \notin Range(Members0(p, pid)))
             IN pid # NoPlaylistId =>
                /\ k \in DOMAIN run[p].outcome.breakdown
                /\ AddFailed(p, pid) => run[p].outcome.breakdown[k].added = 0
                /\ ~AddFailed(p, pid) /\ ~ReadFailed(p, pid) =>
                      run[p].outcome.breakdown[k].added = Len(fresh)

\* C6 witness: a report in which the add failed for one collection and
\* another collection had tracks added.
C6_Witness ==
    /\ Succeeded(1)
    /\ \E a, b \in DOMAIN run[1].outcome.breakdown :
          /\ a # b
          /\ AddFailed(1, PlaylistIdMap(run[1].playlists, a))
          /\ run[1].outcome.breakdown[a].added = 0
          /\ run[1].outcome.breakdown[b].added > 0

\* C7. With a valid configuration a call never ends by raising: a failure of
\* an external call still ends in a report.
C7_AlwaysReport ==
    \A p \in Procs :
       run[p].pc = "done" /\ run[p].outcome.status = "raised" =>
          run[p].outcome.error = "config"

\* C8. A call without a classifier credential or without any collection
\* raises the configuration error and has made no external call and written
\* no file.
C8_ConfigErrorBeforeAnyCall ==
    \A p \in Procs :
       (~anthropic_key \/ playlists_file = <<>>) /\ run[p].pc \notin {"idle", "called"} =>
          /\ run[p].pc = "done"
          /\ run[p].outcome = [status |-> "raised", error |-> "config"]
          /\ run[p].log = <<>>
          /\ song_cache = EmptyMap /\ report_file = <<>>

\* C8 witness: a call that ended on the missing collections, the credential
\* being set.
C8_Witness ==
    /\ run[1].pc = "done"
    /\ run[1].outcome.status = "raised"
    /\ anthropic_key
    /\ playlists_file = <<>>

\* C9. Malformed batch: after a run that returns its report, no track of a
\* batch whose response was not valid JSON is in the cache.
C9_MalformedBatchUncached ==
    \A p \in Procs :
       Succeeded(p) =>
          \A j \in EventsOf(p, "classify") :
             run[p].log[j].name = "malformed" =>
                Range(run[p].log[j].ids) \cap DOMAIN song_cache = {}

\* C10. Effective scope: the processed tracks are the first min(L, |history|)
\* fetched tracks for a given limit L, the first min(initial_scan_depth,
\* |history|) when no limit is given and the cache is empty, and all fetched
\* tracks when no limit is given and the cache is not empty.
C10_EffectiveScope ==
    \A p \in Procs :
       Running(p) /\ run[p].pc \notin {"provision", "fetch"} =>
          LET r == run[p]
              n == Len(r.fetched)
              size == IF r.song_limit # NoLimit THEN Min(r.song_limit, n)
                      ELSE IF r.cache0 = EmptyMap THEN Min(ScanDepth(schedule), n)
                      ELSE n
          IN r.songs = SubSeq(r.fetched, 1, size)

\* C10 witness: an empty cache, no limit, and a history longer than the
\* initial scan depth.
C10_Witness ==
    /\ run[1].pc = "classify"
    /\ run[1].song_limit = NoLimit
    /\ run[1].cache0 = EmptyMap
    /\ Len(run[1].fetched) > ScanDepth(schedule)
    /\ Len(run[1].songs) = ScanDepth(schedule)

\* The classifier calls of the call `p`, in the order they were made.
ClassifyCalls(p) == SelectSeq(run[p].log, LAMBDA e : e.op = "classify")

\* The processed tracks that had no entry in the cache when the call began.
Uncached(p) == SelectSeq(run[p].songs, LAMBDA t : t \notin DOMAIN run[p].cache0)

\* The call has made all the classifier calls it will make.
Classified(p) == run[p].pc \in {"merge", "group", "reconcile"} \/ Succeeded(p)

\* C11. Partition and batching: the j-th classifier call of a run receives
\* the j-th run of 20 consecutive tracks of the processed tracks that are not
\* in the cache, in history order; a run with n such tracks makes exactly
\* ceil(n / 20) calls, all but the last of exactly 20 tracks, and none when
\* n = 0.
C11_PartitionAndBatching ==
    \A p \in Procs :
       LET calls == ClassifyCalls(p)
           new == Uncached(p)
           n == Len(new)
       IN /\ \A j \in 1 .. Len(calls) :
                /\ calls[j].ids # <<>>
                /\ calls[j].ids =
                      SubSeq(new, batch_size * (j - 1) + 1, Min(batch_size * j, n))
                /\ j < Len(calls) => Len(calls[j].ids) = batch_size
          /\ Classified(p) =>
                /\ Len(calls) = (n + batch_size - 1) \div batch_size
                /\ n = 0 => calls = <<>>

\* C11 witness: a run whose uncached tracks took a full batch and a second,
\* shorter one.
C11_Witness ==
    /\ run[1].pc = "merge"
    /\ Len(ClassifyCalls(1)) = 2
    /\ Len(ClassifyCalls(1)[1].ids) = batch_size
    /\ Len(ClassifyCalls(1)[2].ids) < batch_size
    /\ Len(Uncached(1)) = Len(ClassifyCalls(1)[1].ids) + Len(ClassifyCalls(1)[2].ids)

\* The identifiers the call `p` has submitted to the classifier so far, one
\* entry per submission.
RECURSIVE Flatten(_)
Flatten(ss) == IF ss = <<>> THEN <<>> ELSE Head(ss) \o Flatten(Tail(ss))

Submitted(p) ==
    LET calls == ClassifyCalls(p)
    IN Flatten([j \in 1 .. Len(calls) |-> calls[j].ids])

\* C12. No double classification inside one run: no track identifier is
\* submitted to the classifier more than once by one run, whatever the
\* history holds.
C12_NoDoubleClassification ==
    \A p \in Procs :
       LET ids == Submitted(p) IN
       \A a, b \in 1 .. Len(ids) : ids[a] = ids[b] => a = b

\* The call has loaded its configuration and has not ended on it.
Started(p) ==
    \/ Running(p)
    \/ /\ run[p].pc = "done"
       /\ run[p].outcome # [status |-> "raised", error |-> "config"]

\* The call is past the place where the cache is saved.
PastMerge(p) == run[p].pc \in {"group", "reconcile"} \/ Succeeded(p)

\* C13. Cache persistence: the cache file changes only where a run saves it;
\* a run with new tracks saves it exactly once, after all its batches are
\* classified and before any reconciliation call, a run without new tracks
\* never saves it, and as long as a run has not saved it (also if it is
\* killed) the file holds what it held when the run began.
C13_CachePersistence ==
    /\ [](\A p \in Procs :
            LET saves == EventsOf(p, "save_song_cache")
                n == Len(Uncached(p))
            IN /\ Cardinality(saves) <= 1
               /\ PastMerge(p) => Cardinality(saves) = IF n > 0 THEN 1 ELSE 0
               /\ \A s \in saves :
                     /\ Len(ClassifyCalls(p)) = (n + batch_size - 1) \div batch_size
                     /\ \A j \in EventsOf(p, "classify") : j < s
                     /\ \A j \in EventsOf(p, "get_playlist")
                              \cup EventsOf(p, "add_playlist_items") : s < j
               /\ Started(p) /\ saves = {} => song_cache = run[p].cache0)
    /\ [][song_cache' # song_cache => \E p \in Procs : Did(p, "save_song_cache")]_vars

\* C13 witness: a later run killed after its batch was classified and before
\* the save: the file still holds the entries of the run before.
C13_Witness ==
    /\ run[1].pc = "done"
    /\ run[1].outcome.status = "crashed"
    /\ ClassifyCalls(1) # <<>>
    /\ Len(Submitted(1)) = Len(Uncached(1))
    /\ EventsOf(1, "save_song_cache") = {}
    /\ run[1].cache0 # EmptyMap
    /\ song_cache = run[1].cache0

\* C14. Default on missing or unresolvable target: after grouping, with a
\* default collection key in the schedule, every result with a videoId whose
\* target key is missing, or is the key of no collection with a remote
\* identifier, is in the group of the default collection key.
C14_DefaultOnUnresolvable ==
    \A p \in Procs :
       run[p].pc = "reconcile" /\ Truthy(schedule.default_playlist) =>
          LET all_results == run[p].cached_results \o run[p].new_results IN
          \A j \in 1 .. Len(all_results) :
             LET c == all_results[j] IN
             /\ c.videoId # NoVideoId
             /\ \/ c.best_playlist = Absent
                \/ PlaylistIdMap(run[p].playlists, c.best_playlist) = NoPlaylistId
             => /\ schedule.default_playlist \in DOMAIN run[p].playlist_songs
                /\ c.videoId \in Range(run[p].playlist_songs[schedule.default_playlist])

\* The list `after` holds the configs of `before`, same keys and names, and
\* every remote identifier `before` has.
KeepsIds(before, after) ==
    /\ Len(after) = Len(before)
    /\ \A j \in 1 .. Len(before) :
          /\ after[j].key = before[j].key
          /\ after[j].name = before[j].name
          /\ before[j].ytmusic_playlist_id # NoPlaylistId => after[j] = before[j]

\* C15. Remote identifier set at most once: no step of a provisioning call
\* changes a key or an identifier that is set, in the list in memory or in
\* the playlists file, and a call makes a store call or writes the file only
\* if the file holds a config without an identifier.
C15_RemoteIdSetOnce ==
    [][ /\ KeepsIds(playlists_file, playlists_file')
        /\ \A p \in Procs :
              /\ run[p].pc = "provision" /\ run'[p].pc \in {"provision", "fetch"} =>
                    KeepsIds(run[p].playlists, run'[p].playlists)
              /\ Did(p, "find") \/ Did(p, "create") \/ Did(p, "save_playlists") \/
                    playlists_file' # playlists_file =>
                    \E j \in 1 .. Len(playlists_file) :
                       playlists_file[j].ytmusic_playlist_id = NoPlaylistId ]_vars

\* C15 witness: a second call over the file a first call has written, with
\* identifiers the store gave out during that call: provisioning is over and
\* the call has made no store call and written nothing.
C15_Witness ==
    /\ nruns = 2
    /\ run[1].pc = "fetch"
    /\ run[1].log = <<>>
    /\ run[1].playlists = playlists_file
    /\ \A j \in 1 .. Len(playlists_file) :
          playlists_file[j].ytmusic_playlist_id > j

\* The trigger of request `q` was accepted: its handler answered "started".
Accepted(q) == req[q].pc = "started"

\* C16. Every started run reaches a terminal result, as a poller sees it:
\* whenever the running flag is false after a trigger was accepted, every
\* accepted run has ended and the stored result is the terminal result of an
\* accepted run (its report, or the error record of its exception).
C16_PollerSeesTerminalResult ==
    ~sync_state.running /\ (\E q \in Procs : Accepted(q)) =>
       /\ \A q \in Procs : Accepted(q) => run[q].pc = "finished"
       /\ \E q \in Procs :
             /\ Accepted(q)
             /\ sync_state.result = TerminalResult(run[q].outcome)

\* The History Source answered the call `p` with no track.
FetchedNothing(p) ==
    \E j \in EventsOf(p, "get_history") :
       run[p].log[j].ok /\ run[p].log[j].ids = <<>>

\* C17. Empty history short-circuit: a call the History Source answers with
\* no track has returned status empty with zero counts; it has made no
\* classifier call and no remote add, the members of the remote collections
\* are what they were, and the cache file is what it was.
C17_EmptyShortCircuit ==
    \A p \in Procs :
       FetchedNothing(p) =>
          /\ run[p].pc = "done"
          /\ run[p].outcome = [status |-> "empty", songs_fetched |-> 0, total_added |-> 0]
          /\ EventsOf(p, "classify") = {}
          /\ EventsOf(p, "get_playlist") \cup EventsOf(p, "add_playlist_items") = {}
          /\ EventsOf(p, "save_song_cache") = {}
          /\ song_cache = run[p].cache0
          /\ \A pid \in 1 .. Len(run[p].members0) : members[pid] = run[p].members0[pid]

\* C17 witness: a call that provisioned its collections and then got an
\* empty history.
C17_Witness ==
    /\ FetchedNothing(1)
    /\ EventsOf(1, "create") # {}
    /\ run[1].outcome.status = "empty"

\* C18. One report per run: a call that has returned a report, with status
\* success or empty, has written exactly one report file, and the file holds
\* the report it returned.
C18_OneReportPerRun ==
    \A p \in Procs :
       run[p].pc = "done" /\ run[p].outcome.status \in {"success", "empty"} =>
          /\ Cardinality(EventsOf(p, "save_report")) = 1
          /\ report_file = << run[p].outcome >>

\* The tracks the call `p` has submitted and has no result for.
Unanswered(p) == UnansweredIn(run[p])

\* C19. Track missing from the response: a track a run has submitted whose
\* identifier is in none of the results the classifier gave back to the run
\* is not in the cache, is in no remote add of the run, and a next run whose
\* processed history holds it has submitted it again once its classifier
\* calls are made.
C19_MissingTrackRetried ==
    \A p \in Procs :
       /\ Unanswered(p) \cap DOMAIN song_cache = {}
       /\ \A j \in EventsOf(p, "add_playlist_items") :
             Range(run[p].log[j].ids) \cap Unanswered(p) = {}
       /\ Classified(p) =>
             run[p].unanswered \cap Range(run[p].songs) \subseteq Range(Submitted(p))

\* C19 witness: a run that ended with a report left a track without a result,
\* and the next run has submitted that track again.
C19_Witness ==
    /\ nruns = 2
    /\ run[1].pc = "merge"
    /\ \E t \in run[1].unanswered :
          /\ t \in Range(run[1].songs)
          /\ t \in Range(Submitted(1))
          /\ t \notin DOMAIN song_cache
    /\ report_file # <<>>

\* A collection of the call `p` has the key `k` and a remote identifier.
Resolvable(p, k) ==
    \E j \in 1 .. Len(run[p].playlists) :
       /\ run[p].playlists[j].key = k
       /\ run[p].playlists[j].ytmusic_playlist_id # NoPlaylistId

\* The key of the group the call `p` reconciles next has no remote identifier.
AtUnresolvable(p) ==
    /\ run[p].pc = "reconcile"
    /\ run[p].i <= Len(run[p].group_keys)
    /\ ~Resolvable(p, run[p].group_keys[run[p].i])

\* The sum of the added counts of the breakdown entries with a key in `keys`.
RECURSIVE TotalAdded(_, _)
TotalAdded(b, keys) ==
    IF keys = {} THEN 0
    ELSE LET k == CHOOSE x \in keys : TRUE
         IN b[k].added + TotalAdded(b, keys \ {k})

\* C20. Unresolvable collection is skipped, not fatal: the step of a run at a
\* group whose key has no remote identifier goes on to the next group with no
\* store call, no breakdown entry and no change of total_added or of the
\* store; a run that returns its report has status success, a breakdown entry
\* for exactly the groups with a remote identifier and total_added equal to
\* the sum of their added counts.
C20_UnresolvableSkipped ==
    /\ [][ \A p \in Procs :
             AtUnresolvable(p) /\ run'[p] # run[p] /\ run'[p].outcome.status # "crashed" =>
                /\ run'[p] = [run[p] EXCEPT !.i = run[p].i + 1]
                /\ members' = members /\ library' = library ]_vars
    /\ [](\A p \in Procs :
            Succeeded(p) =>
               LET resolvable == {k \in Range(run[p].group_keys) : Resolvable(p, k)}
               IN /\ DOMAIN run[p].outcome.breakdown = resolvable
                  /\ run[p].outcome.total_added =
                        TotalAdded(run[p].outcome.breakdown, resolvable)
                  /\ Cardinality(EventsOf(p, "get_playlist")) = Cardinality(resolvable))

\* C20 witness: a report of a run whose first group had no remote identifier
\* and whose later group had tracks added.
C20_Witness ==
    /\ Succeeded(1)
    /\ Len(run[1].group_keys) > 1
    /\ ~Resolvable(1, run[1].group_keys[1])
    /\ run[1].group_keys[1] \notin DOMAIN run[1].outcome.breakdown
    /\ run[1].outcome.total_added > 0

\* The direct call of add_songs_to_playlist by `p` has returned.
AddDone(p) == run[p].pc = "done" /\ run[p].outcome.status = "returned"

\* C21. Add short-circuit: a call of add_songs_to_playlist with an empty list
\* has returned 0 and made no store call at all; a call with a list whose
\* identifiers were all members of the playlist has returned 0 and made no
\* remote add.
C21_AddShortCircuit ==
    \A p \in Procs :
       AddDone(p) =>
          LET r == run[p] IN
          /\ r.video_ids = <<>> => r.outcome.added = 0 /\ r.log = <<>>
          /\ Range(r.video_ids) \subseteq Range(r.members0[r.playlist_id]) =>
                /\ r.outcome.added = 0
                /\ EventsOf(p, "add_playlist_items") = {}

\* C22. Cache never shrinks: every track identifier that was in the cache
\* file when a run began is in the cache file during the run and after it,
\* however the run ends.
C22_CacheNeverShrinks ==
    \A p \in Procs :
       Started(p) => DOMAIN run[p].cache0 \subseteq DOMAIN song_cache

\* C22 witness: a later run has overwritten a cache file that held entries:
\* the file holds them and new ones.
C22_Witness ==
    /\ nruns = 2
    /\ Started(1)
    /\ EventsOf(1, "save_song_cache") # {}
    /\ run[1].cache0 # EmptyMap
    /\ DOMAIN run[1].cache0 # DOMAIN song_cache
    /\ DOMAIN run[1].cache0 \subseteq DOMAIN song_cache

\* C23. Rejected trigger leaves state unchanged: the step in which a trigger
\* is answered with the conflict response changes neither the running flag
\* nor the stored result nor any run, and no worker is ever started for a
\* trigger that was answered so.
C23_RejectedTriggerNoEffect ==
    /\ [][ \A q \in Procs :
             req[q].pc # "conflict" /\ req'[q].pc = "conflict" =>
                /\ sync_state.running
                /\ sync_state' = sync_state
                /\ run' = run
                /\ << files, remote >>' = << files, remote >> ]_vars
    /\ [](\A q \in Procs : req[q].pc = "conflict" => run[q] = IdleRun)

\* C23 witness: a trigger was answered with the conflict response while the
\* run of another trigger is in flight with the flag set.
C23_Witness ==
    \E q, o \in Procs :
       /\ req[q].pc = "conflict"
       /\ run[q] = IdleRun
       /\ req[o].pc = "started"
       /\ Running(o)
       /\ sync_state = [running |-> TRUE, result |-> NoResult]

\* C24. A run only adds cache entries for tracks it submitted: every entry
\* the cache file has and did not have when the run began is the entry of a
\* track the run submitted to the classifier, and every entry it had when the
\* run began is unchanged.
C24_OnlySubmittedCached ==
    \A p \in Procs :
       Started(p) =>
          /\ DOMAIN song_cache \ DOMAIN run[p].cache0 \subseteq Range(Submitted(p))
          /\ \A t \in DOMAIN run[p].cache0 \cap DOMAIN song_cache :
                song_cache[t] = run[p].cache0[t]

\* C25. Report accounting: in every success report songs_fetched is cached
\* plus the number of tracks the run submitted to the classifier, total_added
\* is the sum of added over the breakdown entries, and every breakdown entry
\* has 0 <= added <= attempted.
C25_ReportAccounting ==
    \A p \in Procs :
       Succeeded(p) =>
          LET rep == run[p].outcome IN
          /\ rep.songs_fetched = rep.cached + Len(Submitted(p))
          /\ rep.total_added = TotalAdded(rep.breakdown, DOMAIN rep.breakdown)
          /\ \A k \in DOMAIN rep.breakdown :
                /\ 0 <= rep.breakdown[k].added
                /\ rep.breakdown[k].added <= rep.breakdown[k].attempted

\* C25 witness: a report with cached and submitted tracks, under a limit that
\* cut the history, in which a collection got some of its tracks added and
\* not all.
C25_Witness ==
    /\ Succeeded(1)
    /\ run[1].outcome.cached > 0
    /\ Len(Submitted(1)) > 0
    /\ Len(run[1].fetched) > run[1].outcome.songs_fetched
    /\ \E k \in DOMAIN run[1].outcome.breakdown :
          /\ 0 < run[1].outcome.breakdown[k].added
          /\ run[1].outcome.breakdown[k].added < run[1].outcome.breakdown[k].attempted

====
